---- MODULE Spec2Model ----
(***************************************************************************)
(* ic-use-internet-identity: the session store, the initialization promise *)
(* and the operations login / clear / ensureInitialized of index.tsx, with *)
(* the AuthClient, the handshake window, the timers and the clock as the   *)
(* environment.  Every await of the source is a separate step; everything  *)
(* between two awaits is one atomic step (JavaScript runs to completion).  *)
(*                                                                         *)
(* Time is counted in units of the 1000 ms safety margin.  The one-hour    *)
(* default lifetime is shortened to DefaultTimeToLive units so that the    *)
(* clock stays finite; only the order of instants matters to the code.     *)
(***************************************************************************)
EXTENDS Integers, FiniteSets, Sequences, TLC

\* ---------------------------------------------------------------- bounds
\* How many provider effect runs, login() dispatches, clear() runs (called or
\* fired by a timer) and ensureInitialized() calls a behaviour makes, and how far
\* the clock runs.  A behaviour follows one of the Scenarios below, which spend
\* these bounds on restarts, on sessions, or on a mix of both.
MaxInits == 3
MaxLogins == 2
MaxClears == 2
MaxCalls == 2
MaxNow == 1

Scenarios ==
    { \* restarts of the provider
      [inits |-> MaxInits, logins |-> 0, clears |-> 0, calls |-> MaxCalls - 1, now |-> 0],
      \* callers of ensureInitialized() during restarts
      [inits |-> MaxInits - 1, logins |-> 0, clears |-> 0, calls |-> MaxCalls, now |-> 0],
      \* sessions: logins, logouts and expiry timers
      [inits |-> 1, logins |-> MaxLogins, clears |-> MaxClears, calls |-> 0, now |-> MaxNow],
      \* a restart during a session
      [inits |-> MaxInits - 1, logins |-> MaxLogins - 1, clears |-> MaxClears - 1,
       calls |-> 0, now |-> MaxNow],
      \* a caller of ensureInitialized() during a session
      [inits |-> 1, logins |-> MaxLogins - 1, clears |-> MaxClears - 1,
       calls |-> MaxCalls - 1, now |-> MaxNow] }

MaxClients == MaxInits + MaxClears

\* ------------------------------------------------------ program constants
\* ONE_HOUR_IN_NANOSECONDS and the 1000 ms margin, in units of the margin, with
\* the hour shortened so that the clock stays finite.
DefaultTimeToLive == 2
SafetyMargin == 1
\* A maxTimeToLive the host sets in loginOptions.
HostTimeToLive == 1

\* ------------------------------------------------------------ identities
NoClient == 0
NoError == "undefined"
NoPromise == 0

None == [kind |-> "none", id |-> 0, exp |-> 0]
AnonymousIdentity == [kind |-> "anon", id |-> 0, exp |-> 0]
DelegationIdentity(i, e) == [kind |-> "deleg", id |-> i, exp |-> e]

\* isDelegationValid of @dfinity/identity: the expiration lies in the future.
isDelegationValid(identity, t) == identity.exp > t

\* The test login() and isAuthenticated() both make on an identity.
IsValidDelegation(identity, t) ==
    /\ identity.kind # "anon"
    /\ identity.kind = "deleg"
    /\ isDelegationValid(identity, t)

\* An optional JavaScript object: undefined, or the object as a function from
\* the keys it has to their values.
Undefined == <<>>
Object(fields) == <<fields>>
EmptyObject == [k \in {} |-> TRUE]

\* Host inputs of the provider component: loginOptions.maxTimeToLive (0: not
\* set), createOptions and clearIdentityOnExpiry.
TimeToLiveInputs == {0, HostTimeToLive}
CreateOptionsInputs == {Undefined}
Props == [createOptions : CreateOptionsInputs,
          loginOptions : TimeToLiveInputs,
          clearIdentityOnExpiry : BOOLEAN]

\* What the environment hands to the callbacks and catch handlers.
FailureReasons == {"undefined", "UserInterrupt"}
Thrown == {"Error", "other"}
PersistedSessions == {None, DelegationIdentity(0, 1), DelegationIdentity(0, 2)}

\* ----------------------------------------------------------------- state
VARIABLES
    context,                \* the store's context (StoreContext)
    initializationResolve,  \* epoch of the promise the stored resolver settles, or NoPromise
    initializationReject,   \* epoch of the promise the stored rejecter settles, or NoPromise
    initializationPromise,  \* the promise ensureInitialized() hands out
    waiters,                \* ensureInitialized() calls and what each got
    clientIdentity,         \* AuthClient handle -> the identity it holds
    storage,                \* the delegation the AuthClient persisted
    inits,                  \* provider effect runs suspended at an await
    handshakes,             \* login handshakes dispatched and not yet called back
    clears,                 \* clear() runs suspended at an await
    timers,                 \* pending setTimeout(clear, ...) calls
    now,                    \* the clock
    counts,                 \* how many of each were started so far
    props,                  \* the props the host renders the provider with
    lim,                    \* the scenario: the bounds of this behaviour
    returned                \* what the last call of a query function returned

vars == <<context, initializationResolve, initializationReject,
          initializationPromise, waiters, clientIdentity, storage, inits,
          handshakes, clears, timers, now, counts, props, lim, returned>>

promiseVars == <<initializationResolve, initializationReject,
                 initializationPromise, waiters>>

\* ----------------------------------------------------------------- store
initialContext ==
    [providerComponentPresent |-> FALSE,
     authClient |-> NoClient,
     createOptions |-> Undefined,
     loginOptions |-> 0,
     status |-> "initializing",
     error |-> NoError,
     identity |-> None,
     clearIdentityOnExpiry |-> TRUE]

\* Mutant: a setState that builds the store anew from the event alone.
setState_Replace(ctx, event) ==
    [k \in DOMAIN initialContext \cup DOMAIN event |->
        IF k \in DOMAIN event THEN event[k] ELSE initialContext[k]]

\* setState: {...context, ...event}
setState(ctx, event) ==
    [k \in DOMAIN ctx \cup DOMAIN event |->
        IF k \in DOMAIN event THEN event[k] ELSE ctx[k]]

\* Mutant: setError that records the error but reports idle.
setError_Idle(ctx, err) == setState(ctx, [status |-> "idle", error |-> err])

\* Mutant: setError that also empties identity.
setError_ClearsIdentity(ctx, err) ==
    setState(ctx, [status |-> "error", error |-> err, identity |-> None])

setError(ctx, err) == setState(ctx, [status |-> "error", error |-> err])

\* error instanceof Error ? error : new Error(fallback)
ErrorOr(thrown, fallback) == IF thrown = "Error" THEN "thrownError" ELSE fallback

\* Mutant: isAuthenticated() that also asks for status = success.
isAuthenticated_OnlyInSuccess ==
    /\ context.status = "success"
    /\ context.identity # None
    /\ IsValidDelegation(context.identity, now)

isAuthenticated ==
    IF context.identity = None THEN FALSE
    ELSE IsValidDelegation(context.identity, now)

getIdentity == context.identity

Max(a, b) == IF a > b THEN a ELSE b

\* setTimeout(clear, delay): a negative delay is run as 0
setTimeout(delay, who) ==
    {[id |-> counts.timers + 1, fireAt |-> now + Max(delay, 0), for |-> who]}

\* ------------------------------------------------- initialization promise
Pending(epoch) == [epoch |-> epoch, state |-> "pending", val |-> None, err |-> NoError]
Resolved(identity) == [epoch |-> 0, state |-> "resolved", val |-> identity, err |-> NoError]
Rejected(err) == [epoch |-> 0, state |-> "rejected", val |-> None, err |-> err]

\* No query function was called yet.  A call fills the field of its result type.
NoCall == [call |-> "none", bool |-> FALSE, identity |-> None, options |-> <<>>]

\* ------------------------------------------------------------------ Init
\* Module load: createInitializationPromise() has run once.
Init ==
    /\ context = initialContext
    /\ initializationResolve = 1
    /\ initializationReject = 1
    /\ initializationPromise = Pending(1)
    /\ waiters = {}
    /\ clientIdentity = [c \in 1..MaxClients |-> None]
    /\ storage \in PersistedSessions
    /\ inits = {}
    /\ handshakes = {}
    /\ clears = {}
    /\ timers = {}
    /\ now = 0
    /\ counts = [inits |-> 0, logins |-> 0, clears |-> 0, timers |-> 0,
                 promises |-> 1, clients |-> 0, calls |-> 0]
    /\ props \in Props
    /\ lim \in Scenarios
    /\ returned = NoCall

\* Mutant: a settlement that releases only the first call that waits.
Release_OnlyFirst(ws, e, outcome) ==
    { IF w.state = "pending" /\ w.epoch = e /\ w.id = 1
      THEN [w EXCEPT !.state = outcome.state, !.val = outcome.val, !.err = outcome.err]
      ELSE w : w \in ws }

\* Settling the promise of epoch e releases the calls that wait on it.
Release(ws, e, outcome) ==
    { IF w.state = "pending" /\ w.epoch = e
      THEN [w EXCEPT !.state = outcome.state, !.val = outcome.val, !.err = outcome.err]
      ELSE w : w \in ws }

\* createInitializationPromise(): a new pending promise and its two resolvers.
createInitializationPromise ==
    /\ initializationPromise' = Pending(counts.promises + 1)
    /\ initializationResolve' = counts.promises + 1
    /\ initializationReject' = counts.promises + 1
    /\ UNCHANGED waiters

\* Mutant: a settlement that retires the resolvers without resolving the promise.
ResolveInitialization_Retires(identity) ==
    /\ initializationResolve' = NoPromise
    /\ initializationReject' = NoPromise
    /\ UNCHANGED <<initializationPromise, waiters>>

\* if (initializationResolve) { initializationResolve(identity); both := null;
\*                              initializationPromise = Promise.resolve(identity) }
ResolveInitialization(identity) ==
    IF initializationResolve # NoPromise
    THEN /\ waiters' = Release(waiters, initializationResolve, Resolved(identity))
         /\ initializationResolve' = NoPromise
         /\ initializationReject' = NoPromise
         /\ initializationPromise' = Resolved(identity)
    ELSE UNCHANGED promiseVars

\* Mutant: a catch block that rejects the promise again after it was retired.
RejectInitialization_Again(err) ==
    /\ waiters' = Release(waiters, initializationReject, Rejected(err))
    /\ initializationResolve' = NoPromise
    /\ initializationReject' = NoPromise
    /\ initializationPromise' = Rejected(err)

\* Mutant: a catch block that leaves the promise pending.
RejectInitialization_Silent(err) == UNCHANGED promiseVars

\* if (initializationReject) { initializationReject(err); both := null;
\*                             initializationPromise = Promise.reject(err) }
RejectInitialization(err) ==
    IF initializationReject # NoPromise
    THEN /\ waiters' = Release(waiters, initializationReject, Rejected(err))
         /\ initializationResolve' = NoPromise
         /\ initializationReject' = NoPromise
         /\ initializationPromise' = Rejected(err)
    ELSE UNCHANGED promiseVars

\* ------------------------------------------------------------ AuthClient
\* AuthClient.create(): the new client holds the persisted delegation if it is
\* still valid, and the anonymous identity otherwise (an expired one is deleted).
CreatedIdentity ==
    IF storage.kind = "deleg" /\ isDelegationValid(storage, now)
    THEN storage ELSE AnonymousIdentity

StorageAfterCreate ==
    IF storage.kind = "deleg" /\ ~isDelegationValid(storage, now)
    THEN None ELSE storage

\* authClient.isAuthenticated(): the client holds a delegation chain.
ClientIsAuthenticated(c) == clientIdentity[c].kind = "deleg"

\* ------------------------------------------------------- provider effect
\* Mutant: an effect that creates a new initialization promise on every run.
ProviderEffect_AlwaysAllocates ==
    /\ counts.inits < lim.inits
    /\ LET ctx == setState(context,
                    [providerComponentPresent |-> TRUE,
                     status |-> "initializing",
                     createOptions |-> props.createOptions,
                     loginOptions |-> props.loginOptions,
                     clearIdentityOnExpiry |-> props.clearIdentityOnExpiry])
           run == [id |-> counts.inits + 1,
                   pc |-> IF ctx.authClient = NoClient THEN "create" ELSE "isAuthenticated",
                   authClient |-> ctx.authClient,
                   clearIdentityOnExpiry |-> props.clearIdentityOnExpiry,
                   epoch |-> counts.promises + 1]
       IN /\ createInitializationPromise
          /\ context' = ctx
          /\ inits' = inits \cup {run}
          /\ counts' = [counts EXCEPT !.inits = @ + 1, !.promises = @ + 1]
    /\ UNCHANGED <<clientIdentity, storage, handshakes, clears, timers, now, props, lim, returned>>

\* The effect of InternetIdentityProvider up to its first await.  epoch tells
\* which initialization promise was the pending one when the run started.
ProviderEffect ==
    /\ counts.inits < lim.inits
    /\ LET started == initializationResolve = NoPromise
           ctx == setState(context,
                    [providerComponentPresent |-> TRUE,
                     status |-> "initializing",
                     createOptions |-> props.createOptions,
                     loginOptions |-> props.loginOptions,
                     clearIdentityOnExpiry |-> props.clearIdentityOnExpiry])
           run == [id |-> counts.inits + 1,
                   pc |-> IF ctx.authClient = NoClient THEN "create" ELSE "isAuthenticated",
                   authClient |-> ctx.authClient,
                   clearIdentityOnExpiry |-> props.clearIdentityOnExpiry,
                   epoch |-> IF started THEN counts.promises + 1
                                        ELSE initializationResolve]
       IN /\ IF started THEN createInitializationPromise ELSE UNCHANGED promiseVars
          /\ context' = ctx
          /\ inits' = inits \cup {run}
          /\ counts' = [counts EXCEPT !.inits = @ + 1,
                                      !.promises = IF started THEN @ + 1 ELSE @]
    /\ UNCHANGED <<clientIdentity, storage, handshakes, clears, timers, now, props, lim, returned>>

\* authClient ??= await createAuthClient() returns: the handle goes to the store.
InitCreated(r) ==
    /\ r \in inits /\ r.pc = "create"
    /\ LET c == counts.clients + 1
       IN /\ clientIdentity' = [clientIdentity EXCEPT ![c] = CreatedIdentity]
          /\ storage' = StorageAfterCreate
          /\ context' = setState(context, [authClient |-> c])
          /\ inits' = (inits \ {r}) \cup
                        {[r EXCEPT !.pc = "isAuthenticated", !.authClient = c]}
          /\ counts' = [counts EXCEPT !.clients = @ + 1]
    /\ UNCHANGED <<promiseVars, handshakes, clears, timers, now, props, lim, returned>>

\* Mutant: a catch block that stores the fallback error whatever was thrown.
InitCatchContext_Fallback(ctx, thrown) ==
    setState(ctx, [status |-> "error", error |-> "Initialization failed"])

\* The store after the catch block of the effect
InitCatchContext(ctx, thrown) ==
    setState(ctx, [status |-> "error",
                   error |-> ErrorOr(thrown, "Initialization failed")])

\* The catch block of the effect: AuthClient.create or isAuthenticated threw.
InitFailed(r, thrown) ==
    /\ r \in inits
    /\ context' = InitCatchContext(context, thrown)
    /\ RejectInitialization(ErrorOr(thrown, "Initialization failed"))
    /\ inits' = inits \ {r}
    /\ UNCHANGED <<clientIdentity, storage, handshakes, clears, timers, now,
                   counts, props, lim, returned>>

\* Mutant: a restore that reports success without storing the identity.
InitRestoredContext_NoIdentity(ctx, identity) ==
    setState(ctx, [status |-> "success", error |-> NoError])

\* The store after a restored session was found
InitRestoredContext(ctx, identity) ==
    setState(ctx, [identity |-> identity, status |-> "success", error |-> NoError])

\* Mutant: an effect that arms no timer when the delay would not be positive.
RestoreArmsTimer_SkipsPast(clearIdentityOnExpiry, identity) ==
    /\ clearIdentityOnExpiry
    /\ identity.kind = "deleg"
    /\ identity.exp # 0
    /\ identity.exp - now - SafetyMargin > 0

\* The effect arms an expiry timer for a restored identity: its own
\* clearIdentityOnExpiry is set and the identity carries an expiration.
RestoreArmsTimer(clearIdentityOnExpiry, identity) ==
    /\ clearIdentityOnExpiry
    /\ identity.kind = "deleg"
    /\ identity.exp # 0

\* await authClient.isAuthenticated() returns true: the session is restored.
InitRestored(r) ==
    /\ r \in inits /\ r.pc = "isAuthenticated"
    /\ ClientIsAuthenticated(r.authClient)
    /\ LET identity == clientIdentity[r.authClient]
           expiration == identity.exp
           arm == RestoreArmsTimer(r.clearIdentityOnExpiry, identity)
       IN /\ timers' = IF arm
                       THEN timers \cup setTimeout(expiration - now - SafetyMargin, identity.id)
                       ELSE timers
          /\ context' = InitRestoredContext(context, identity)
          /\ ResolveInitialization(identity)
          /\ counts' = [counts EXCEPT !.timers = IF arm THEN @ + 1 ELSE @]
    /\ inits' = inits \ {r}
    /\ UNCHANGED <<clientIdentity, storage, handshakes, clears, now, props, lim, returned>>

\* Mutant: a run that finds no session and leaves status as it was.
InitIdleContext_StaysInitializing(ctx) == setState(ctx, [error |-> NoError])

\* The store after no session was found
InitIdleContext(ctx) == setState(ctx, [status |-> "idle", error |-> NoError])

\* await authClient.isAuthenticated() returns false: no session to restore.
InitIdle(r) ==
    /\ r \in inits /\ r.pc = "isAuthenticated"
    /\ ~ClientIsAuthenticated(r.authClient)
    /\ context' = InitIdleContext(context)
    /\ ResolveInitialization(None)
    /\ inits' = inits \ {r}
    /\ UNCHANGED <<clientIdentity, storage, handshakes, clears, timers, now,
                   counts, props, lim, returned>>

\* ----------------------------------------------------------------- login
\* Mutant: login() without the check for a session that is already valid.
LoginPreconditionError_NoAuthCheck(ctx) ==
    IF ~ctx.providerComponentPresent
    THEN "The InternetIdentityProvider component is not present"
    ELSE IF ctx.authClient = NoClient
    THEN "AuthClient is not initialized yet"
    ELSE NoError

\* The three precondition checks of login(): the error message, or NoError.
LoginPreconditionError(ctx) ==
    IF ~ctx.providerComponentPresent
    THEN "The InternetIdentityProvider component is not present"
    ELSE IF ctx.authClient = NoClient
    THEN "AuthClient is not initialized yet"
    ELSE IF IsValidDelegation(clientIdentity[ctx.authClient], now)
    THEN "User is already authenticated"
    ELSE NoError

\* maxTimeToLive of the options login() hands to authClient.login()
LoginTimeToLive(ctx) ==
    IF ctx.loginOptions # 0 THEN ctx.loginOptions ELSE DefaultTimeToLive

\* Mutant: login() that does not clear the error of an earlier attempt.
LoginContext_KeepsError(ctx) ==
    IF LoginPreconditionError(ctx) # NoError
    THEN setError(ctx, LoginPreconditionError(ctx))
    ELSE setState(ctx, [status |-> "logging-in"])

\* The store after login(): an error, or logging-in with the error cleared.
LoginContext(ctx) ==
    IF LoginPreconditionError(ctx) # NoError
    THEN setError(ctx, LoginPreconditionError(ctx))
    ELSE setState(ctx, [status |-> "logging-in", error |-> NoError])

\* The handshakes login() dispatches with authClient.login(options).
LoginDispatch(ctx) ==
    IF LoginPreconditionError(ctx) # NoError
    THEN {}
    ELSE {[id |-> counts.logins + 1,
           authClient |-> ctx.authClient,
           maxTimeToLive |-> LoginTimeToLive(ctx)]}

login ==
    /\ LoginPreconditionError(context) = NoError => counts.logins < lim.logins
    /\ context' = LoginContext(context)
    /\ handshakes' = handshakes \cup LoginDispatch(context)
    /\ counts' = [counts EXCEPT !.logins = @ + Cardinality(LoginDispatch(context))]
    /\ UNCHANGED <<promiseVars, clientIdentity, storage, inits, clears, timers,
                   now, props, lim, returned>>

\* The identity onLoginSuccess() reads back: context.authClient?.getIdentity()
ReadBackIdentity(ctx, identities) ==
    IF ctx.authClient = NoClient THEN None ELSE identities[ctx.authClient]

\* maxTimeToLiveMs of onLoginSuccess()
SuccessTimeToLive(ctx) ==
    IF ctx.loginOptions # 0 THEN ctx.loginOptions ELSE DefaultTimeToLive

\* Mutant: onLoginSuccess() that does not clear the error (the 0.4.0 code).
LoginSuccessContext_KeepsError(ctx, identity) ==
    IF identity = None
    THEN setError(ctx, "Identity not found after successful login")
    ELSE setState(ctx, [identity |-> identity, status |-> "success"])

\* The store after onLoginSuccess()
LoginSuccessContext(ctx, identity) ==
    IF identity = None
    THEN setError(ctx, "Identity not found after successful login")
    ELSE setState(ctx, [identity |-> identity, status |-> "success", error |-> NoError])

\* Mutant: onLoginSuccess() that arms the timer whatever the configuration.
SuccessArmsTimer_Always(ctx, identity) == identity # None

\* onLoginSuccess() arms an expiry timer: the store's clearIdentityOnExpiry is set.
SuccessArmsTimer(ctx, identity) == identity # None /\ ctx.clearIdentityOnExpiry

\* The handshake h ends well: the client of the handshake holds and persists the
\* new delegation, then the onSuccess callback runs.
onLoginSuccess(h) ==
    /\ h \in handshakes
    /\ LET delegation == DelegationIdentity(h.id, now + h.maxTimeToLive)
           identities == [clientIdentity EXCEPT ![h.authClient] = delegation]
           identity == ReadBackIdentity(context, identities)
           arm == SuccessArmsTimer(context, identity)
       IN /\ clientIdentity' = identities
          /\ storage' = delegation
          /\ timers' = IF arm
                       THEN timers \cup setTimeout(SuccessTimeToLive(context) - SafetyMargin,
                                                   identity.id)
                       ELSE timers
          /\ context' = LoginSuccessContext(context, identity)
          /\ counts' = [counts EXCEPT !.timers = IF arm THEN @ + 1 ELSE @]
    /\ handshakes' = handshakes \ {h}
    /\ UNCHANGED <<promiseVars, inits, clears, now, props, lim, returned>>

\* Mutant: onLoginError() without the default message.
LoginErrorMessage_NoDefault(reason) == reason

\* error ?? "Login failed"
LoginErrorMessage(reason) == IF reason = "undefined" THEN "Login failed" ELSE reason

\* The handshake h fails or is abandoned: the onError callback runs.
onLoginError(h, reason) ==
    /\ h \in handshakes
    /\ context' = setError(context, LoginErrorMessage(reason))
    /\ handshakes' = handshakes \ {h}
    /\ UNCHANGED <<promiseVars, clientIdentity, storage, inits, clears, timers,
                   now, counts, props, lim, returned>>

\* ----------------------------------------------------------------- clear
\* Mutant: clear() that returns silently when there is no client.
ClearContext_Silent(ctx) == ctx

\* The store after the synchronous part of clear()
ClearContext(ctx) ==
    IF ctx.authClient = NoClient
    THEN setError(ctx, "Auth client not initialized")
    ELSE ctx

\* The authClient.logout() calls clear() starts; by tells who called clear(),
\* onIdle whether the session was already logged out at the call.
ClearDispatch(ctx, by) ==
    IF ctx.authClient = NoClient
    THEN {}
    ELSE {[id |-> counts.clears + 1, pc |-> "logout", authClient |-> ctx.authClient,
           by |-> by, onIdle |-> ctx.status = "idle" /\ ctx.identity = None]}

\* clear() called by the application
clear ==
    /\ counts.clears < lim.clears
    /\ context' = ClearContext(context)
    /\ clears' = clears \cup ClearDispatch(context, "call")
    /\ counts' = [counts EXCEPT !.clears = @ + 1]
    /\ UNCHANGED <<promiseVars, clientIdentity, storage, inits, handshakes,
                   timers, now, props, lim, returned>>

\* clear() called by an expiry timer that is due
TimerFired(t) ==
    /\ t \in timers
    /\ t.fireAt <= now
    /\ counts.clears < lim.clears
    /\ timers' = timers \ {t}
    /\ context' = ClearContext(context)
    /\ clears' = clears \cup ClearDispatch(context, "timer")
    /\ counts' = [counts EXCEPT !.clears = @ + 1]
    /\ UNCHANGED <<promiseVars, clientIdentity, storage, inits, handshakes,
                   now, props, lim, returned>>

\* authClient.logout() resolved: the client is anonymous, the storage is empty,
\* and the continuation starts createAuthClient().
LogoutResolved(c) ==
    /\ c \in clears /\ c.pc = "logout"
    /\ clientIdentity' = [clientIdentity EXCEPT ![c.authClient] = AnonymousIdentity]
    /\ storage' = None
    /\ clears' = (clears \ {c}) \cup {[c EXCEPT !.pc = "create"]}
    /\ UNCHANGED <<context, promiseVars, inits, handshakes, timers, now, counts,
                   props, lim, returned>>

\* Mutant: a catch handler of clear() that forgets the session.
ClearCatchContext_ClearsIdentity(ctx, thrown) ==
    setState(ctx, [status |-> "error", error |-> ErrorOr(thrown, "Logout failed"),
                   identity |-> None])

\* The store after the catch handler of clear()
ClearCatchContext(ctx, thrown) ==
    setState(ctx, [status |-> "error", error |-> ErrorOr(thrown, "Logout failed")])

\* authClient.logout() rejected: the catch handler runs.
LogoutRejected(c, thrown) ==
    /\ c \in clears /\ c.pc = "logout"
    /\ context' = ClearCatchContext(context, thrown)
    /\ clears' = clears \ {c}
    /\ UNCHANGED <<promiseVars, clientIdentity, storage, inits, handshakes,
                   timers, now, counts, props, lim, returned>>

\* Mutant: a then handler of clear() that drops the client it logged out and
\* stores no new one.
ClearedContext_NoClient(ctx, authClient) ==
    setState(ctx, [authClient |-> NoClient, identity |-> None,
                   status |-> "idle", error |-> NoError])

\* Mutant: a then handler of clear() that leaves the error in the store.
ClearedContext_KeepsError(ctx, authClient) ==
    setState(ctx, [authClient |-> authClient, identity |-> None, status |-> "idle"])

\* The store after the then handler of clear(): createAuthClient() stored the
\* handle, then the handler's own update.
ClearedContext(ctx, authClient) ==
    setState(setState(ctx, [authClient |-> authClient]),
             [authClient |-> authClient, identity |-> None,
              status |-> "idle", error |-> NoError])

\* await createAuthClient() of the then handler returned.
ClearCreated(c) ==
    /\ c \in clears /\ c.pc = "create"
    /\ LET new == counts.clients + 1
       IN /\ clientIdentity' = [clientIdentity EXCEPT ![new] = CreatedIdentity]
          /\ storage' = StorageAfterCreate
          /\ context' = ClearedContext(context, new)
          /\ counts' = [counts EXCEPT !.clients = @ + 1]
    /\ clears' = clears \ {c}
    /\ UNCHANGED <<promiseVars, inits, handshakes, timers, now, props, lim, returned>>

\* await createAuthClient() of the then handler threw: the same catch handler runs.
ClearCreateFailed(c, thrown) ==
    /\ c \in clears /\ c.pc = "create"
    /\ context' = ClearCatchContext(context, thrown)
    /\ clears' = clears \ {c}
    /\ UNCHANGED <<promiseVars, clientIdentity, storage, inits, handshakes,
                   timers, now, counts, props, lim, returned>>

\* ----------------------------------------------------- ensureInitialized
\* Mutant: ensureInitialized() that hands out the settled promise after the
\* initialization, whatever happened to the session since.
EnsureInitialized_Cached(ctx) ==
    IF ctx.status = "error"
    THEN Rejected(IF ctx.error # NoError THEN ctx.error ELSE "Initialization failed")
    ELSE initializationPromise

\* Mutant: ensureInitialized() that hands out the promise also in status error.
EnsureInitialized_Waits(ctx) ==
    IF ctx.status \notin {"initializing", "error"}
    THEN Resolved(IF isAuthenticated THEN getIdentity ELSE None)
    ELSE initializationPromise

\* What a call of ensureInitialized() gets at once: a rejection, the live
\* identity, or the initialization promise as it is now.
EnsureInitialized(ctx) ==
    IF ctx.status = "error"
    THEN Rejected(IF ctx.error # NoError THEN ctx.error ELSE "Initialization failed")
    ELSE IF ctx.status # "initializing"
    THEN Resolved(IF isAuthenticated THEN getIdentity ELSE None)
    ELSE initializationPromise

ensureInitialized ==
    /\ counts.calls < lim.calls
    /\ waiters' = waiters \cup
          {[id |-> counts.calls + 1,
            epoch |-> EnsureInitialized(context).epoch,
            state |-> EnsureInitialized(context).state,
            val |-> EnsureInitialized(context).val,
            err |-> EnsureInitialized(context).err]}
    /\ counts' = [counts EXCEPT !.calls = @ + 1]
    /\ UNCHANGED <<context, initializationResolve, initializationReject,
                   initializationPromise, clientIdentity, storage, inits,
                   handshakes, clears, timers, now, props, lim, returned>>

\* ----------------------------------------------------------------- clock
Tick ==
    /\ now < lim.now
    /\ now' = now + 1
    /\ UNCHANGED <<context, promiseVars, clientIdentity, storage, inits,
                   handshakes, clears, timers, counts, props, lim, returned>>

Next ==
    \/ ProviderEffect
    \/ \E r \in inits : InitCreated(r)
    \/ \E r \in inits, thrown \in Thrown : InitFailed(r, thrown)
    \/ \E r \in inits : InitRestored(r)
    \/ \E r \in inits : InitIdle(r)
    \/ login
    \/ \E h \in handshakes : onLoginSuccess(h)
    \/ \E h \in handshakes, reason \in FailureReasons : onLoginError(h, reason)
    \/ clear
    \/ \E t \in timers : TimerFired(t)
    \/ \E c \in clears : LogoutResolved(c)
    \/ \E c \in clears, thrown \in Thrown : LogoutRejected(c, thrown)
    \/ \E c \in clears : ClearCreated(c)
    \/ \E c \in clears, thrown \in Thrown : ClearCreateFailed(c, thrown)
    \/ ensureInitialized
    \/ Tick

Spec == Init /\ [][Next]_vars

\* ------------------------------------------- the functions taken alone
\* {...a, ...b}
Spread(a, b) ==
    [k \in DOMAIN a \cup DOMAIN b |-> IF k \in DOMAIN b THEN b[k] ELSE a[k]]

\* The options createAuthClient() hands to AuthClient.create().
AuthClientCreateOptions(createOptions) ==
    LET host == IF Len(createOptions) = 0 THEN EmptyObject ELSE createOptions[1]
        hostIdle == IF "idleOptions" \in DOMAIN host THEN host.idleOptions ELSE EmptyObject
    IN Spread([idleOptions |->
                  Spread([disableDefaultIdleCallback |-> TRUE, disableIdle |-> TRUE],
                         hostIdle)],
              host)

\* idleOptions objects a host may put into createOptions.
IdleOptionsInputs ==
    { EmptyObject,
      [idleTimeout |-> 1],
      [disableIdle |-> FALSE],
      [disableIdle |-> FALSE, disableDefaultIdleCallback |-> FALSE],
      [disableDefaultIdleCallback |-> FALSE, idleTimeout |-> 1] }

\* createOptions a host may pass: none, without idleOptions, with idleOptions.
HostCreateOptions ==
    {Undefined, Object(EmptyObject), Object([keyType |-> "Ed25519"])}
      \cup {Object([idleOptions |-> i]) : i \in IdleOptionsInputs}

Statuses == {"initializing", "idle", "logging-in", "success", "error"}

\* Identities a store may hold: none, the anonymous one, a delegation that
\* expires at 1 or at 2, and an identity that is no DelegationIdentity.
IdentityInputs ==
    {None, AnonymousIdentity, DelegationIdentity(1, 1), DelegationIdentity(1, 2),
     [kind |-> "key", id |-> 1, exp |-> 0]}

\* The events the program sends to the store, with the values they may carry.
Events ==
    {[type |-> "setState", status |-> "error", error |-> "Login failed"],
     [type |-> "setState", status |-> "logging-in", error |-> NoError],
     [type |-> "setState", status |-> "idle", error |-> NoError],
     [type |-> "setState", authClient |-> 1],
     [type |-> "setState", authClient |-> 1, identity |-> None, status |-> "idle",
      error |-> NoError]}
      \cup {[type |-> "setState", identity |-> i, status |-> "success", error |-> NoError] :
               i \in IdentityInputs \ {None}}
      \cup {[type |-> "setState", providerComponentPresent |-> TRUE,
              status |-> "initializing", createOptions |-> co, loginOptions |-> 0,
              clearIdentityOnExpiry |-> b] : co \in HostCreateOptions, b \in BOOLEAN}

\* Any store, at any instant, and nothing in flight.
PureInit ==
    /\ context \in {[initialContext EXCEPT !.status = st, !.identity = i] :
                       st \in Statuses, i \in IdentityInputs}
    /\ initializationResolve = 1
    /\ initializationReject = 1
    /\ initializationPromise = Pending(1)
    /\ waiters = {}
    /\ clientIdentity = [c \in 1..MaxClients |-> None]
    /\ storage = None
    /\ inits = {}
    /\ handshakes = {}
    /\ clears = {}
    /\ timers = {}
    /\ now \in 0..MaxNow
    /\ counts = [inits |-> 0, logins |-> 0, clears |-> 0, timers |-> 0,
                 promises |-> 1, clients |-> 0, calls |-> 0]
    /\ props = [createOptions |-> Undefined, loginOptions |-> 0,
                clearIdentityOnExpiry |-> TRUE]
    /\ lim = [inits |-> 0, logins |-> 0, clears |-> 0, calls |-> 0, now |-> 0]
    /\ returned = NoCall

\* store.send(event)
send(event) ==
    /\ context' = setState(context, event)
    /\ UNCHANGED <<promiseVars, clientIdentity, storage, inits, handshakes, clears,
                   timers, now, counts, props, lim, returned>>

\* A call of isAuthenticated()
CallIsAuthenticated ==
    /\ returned' = [NoCall EXCEPT !.call = "isAuthenticated", !.bool = isAuthenticated]
    /\ UNCHANGED <<context, promiseVars, clientIdentity, storage, inits, handshakes,
                   clears, timers, now, counts, props, lim>>

\* A call of getIdentity()
CallGetIdentity ==
    /\ returned' = [NoCall EXCEPT !.call = "getIdentity", !.identity = getIdentity]
    /\ UNCHANGED <<context, promiseVars, clientIdentity, storage, inits, handshakes,
                   clears, timers, now, counts, props, lim>>

\* createAuthClient() up to its call of AuthClient.create(options)
CallCreateAuthClient ==
    /\ returned' = [NoCall EXCEPT !.call = "AuthClient.create",
                                  !.options = AuthClientCreateOptions(context.createOptions)]
    /\ UNCHANGED <<context, promiseVars, clientIdentity, storage, inits, handshakes,
                   clears, timers, now, counts, props, lim>>

PureNext ==
    \/ \E event \in Events : send(event)
    \/ CallIsAuthenticated
    \/ CallGetIdentity
    \/ CallCreateAuthClient

\* The store and the query functions on any reachable or unreachable store.
PureSpec == PureInit /\ [][PureNext]_vars

\* A provider effect run suspended at an await goes on: AuthClient.create() and
\* authClient.isAuthenticated() each return or throw.
InitStep ==
    \E r \in inits :
       \/ InitCreated(r)
       \/ InitRestored(r)
       \/ InitIdle(r)
       \/ \E thrown \in Thrown : InitFailed(r, thrown)

\* The initial states of the behaviours in which ensureInitialized() is called.
InitWithCalls ==
    /\ context = initialContext
    /\ initializationResolve = 1
    /\ initializationReject = 1
    /\ initializationPromise = Pending(1)
    /\ waiters = {}
    /\ clientIdentity = [c \in 1..MaxClients |-> None]
    /\ storage \in PersistedSessions
    /\ inits = {}
    /\ handshakes = {}
    /\ clears = {}
    /\ timers = {}
    /\ now = 0
    /\ counts = [inits |-> 0, logins |-> 0, clears |-> 0, timers |-> 0,
                 promises |-> 1, clients |-> 0, calls |-> 0]
    /\ props \in Props
    /\ lim \in {l \in Scenarios : l.calls > 0}
    /\ returned = NoCall

\* Those behaviours under the assumption that every call a provider effect run
\* awaits comes back.
FairSpec == InitWithCalls /\ [][Next]_vars /\ WF_vars(InitStep)


\* ======================================================================
\* Properties
\* ======================================================================

\* One of the three preconditions of login() fails.
LoginPreconditionFails ==
    \/ ~context.providerComponentPresent
    \/ context.authClient = NoClient
    \/ /\ clientIdentity[context.authClient].kind = "deleg"
       /\ clientIdentity[context.authClient].exp > now

\* C1: a login() call made while status = logging-in, with the dispatched
\* handshake still in flight, is rejected: it records an error and dispatches no
\* second handshake.
C1_SecondLoginRejected ==
    [][(login /\ context.status = "logging-in" /\ handshakes # {})
         => (context'.status = "error" /\ handshakes' = handshakes)]_vars

\* C2: identity is non-empty only if status = success or a provider effect run
\* is still in progress.
C2_IdentityOnlyInSuccess ==
    context.identity # None => (context.status = "success" \/ inits # {})

\* C2 amended: a step that ends in status = error leaves identity as it was, and
\* the only step that empties identity is the one that sets status = idle with a
\* new auth client handle (the then handler of clear()).
C2_IdentityClearedOnlyByLogout ==
    [][/\ context'.status = "error" => context'.identity = context.identity
       /\ (context.identity # None /\ context'.identity = None)
            => (context'.status = "idle" /\ context'.authClient # context.authClient)]_vars

\* C2 witness: an error recorded while the store holds an identity.
C2_Witness ==
    /\ context.status = "error"
    /\ context.identity.kind = "deleg"
    /\ context.error = "User is already authenticated"


\* C3: ensureInitialized() rejects only when the initialization itself ended in
\* error: while the last initialization stands settled with success, a call is
\* not rejected.
C3_RejectsOnlyAfterFailedInit ==
    initializationPromise.state = "resolved"
        => EnsureInitialized(context).state # "rejected"

\* C4: login() with a failing precondition sets status = error with a non-empty
\* error and dispatches no handshake.
C4_PreconditionFailure ==
    [][(login /\ LoginPreconditionFails)
         => /\ context'.status = "error"
            /\ context'.error # NoError
            /\ handshakes' = handshakes
            /\ counts'.logins = counts.logins
            /\ [context' EXCEPT !.status = context.status, !.error = context.error]
                 = context]_vars

\* C4 witness: login() was refused because the client holds a valid delegation.
C4_Witness ==
    /\ context.status = "error"
    /\ context.error = "User is already authenticated"
    /\ IsValidDelegation(clientIdentity[context.authClient], now)

\* C5: login() with all preconditions passing sets status = logging-in and
\* error = absent in one update, touches no other field, and leaves exactly one
\* new handshake, for the store's client, in flight when it returns.
C5_Dispatch ==
    [][(login /\ ~LoginPreconditionFails)
         => /\ context' = [context EXCEPT !.status = "logging-in", !.error = NoError]
            /\ handshakes \subseteq handshakes'
            /\ Cardinality(handshakes' \ handshakes) = 1
            /\ \A h \in handshakes' \ handshakes : h.authClient = context.authClient]_vars

\* C5 witness: a second login() was dispatched after the first handshake ended
\* without a session (a retry), and its handshake is in flight.
C5_Witness ==
    /\ context.status = "logging-in"
    /\ counts.logins = 2
    /\ Cardinality(handshakes) = 1
    /\ clientIdentity[context.authClient] = AnonymousIdentity
    /\ counts.clears = 0

\* C6: the success callback leaves status = success, identity = the identity the
\* store's auth client holds, and error = absent.
C6_LoginSuccess ==
    [][(\E h \in handshakes : onLoginSuccess(h))
         => /\ context'.status = "success"
            /\ context'.identity = clientIdentity'[context'.authClient]
            /\ context'.error = NoError]_vars

\* C6 witness: a session obtained by the second handshake, after the first failed.
C6_Witness ==
    /\ context.status = "success"
    /\ context.error = NoError
    /\ context.identity.kind = "deleg"
    /\ context.identity.id = 2
    /\ counts.clears = 0

\* C7: the failure callback leaves status = error and error = the reason, or
\* "Login failed" without one; identity and the auth client handle are unchanged.
C7_LoginError ==
    [][\A h \in handshakes, reason \in FailureReasons :
          onLoginError(h, reason)
            => /\ context'.status = "error"
               /\ context'.error = (IF reason = "undefined" THEN "Login failed" ELSE reason)
               /\ context'.identity = context.identity
               /\ context'.authClient = context.authClient]_vars

\* C7 witness: a handshake failed without a reason.
C7_Witness ==
    /\ context.status = "error"
    /\ context.error = "Login failed"

\* C8: a clear() run whose logout succeeded ends with status = idle, identity
\* and error absent, and a newly created auth client handle in the store.
C8_LogoutSuccess ==
    [][(\E c \in clears : c.pc = "create" /\ c \notin clears')
         => /\ context'.status = "idle"
            /\ context'.identity = None
            /\ context'.error = NoError
            /\ context'.authClient # context.authClient
            /\ clientIdentity[context'.authClient] = None]_vars

\* C9: the logout operation fails: status = error, error = the reason or
\* "Logout failed"; the step writes neither identity nor the auth client handle.
C9_LogoutFailure ==
    [][\A c \in clears, thrown \in Thrown :
          LogoutRejected(c, thrown)
            => /\ context'.status = "error"
               /\ context'.error = (IF thrown = "Error" THEN "thrownError" ELSE "Logout failed")
               /\ context'.identity = context.identity
               /\ context'.authClient = context.authClient
               /\ clientIdentity' = clientIdentity]_vars

\* C9 witness: a logout failed with a reason that is no Error, and the session's
\* identity is still in the store.
C9_Witness ==
    /\ context.status = "error"
    /\ context.error = "Logout failed"
    /\ context.identity.kind = "deleg"
    /\ clientIdentity[context.authClient] = context.identity

\* C10: clear() without an auth client handle sets status = error with the
\* "not initialized" error, starts no logout and leaves identity unchanged.
C10_ClearWithoutClient ==
    [][((clear \/ \E t \in timers : TimerFired(t)) /\ context.authClient = NoClient)
         => /\ context'.status = "error"
            /\ context'.error = "Auth client not initialized"
            /\ clears' = clears
            /\ context'.identity = context.identity
            /\ context'.authClient = NoClient]_vars

\* C10 witness: clear() was refused for want of a client.
C10_Witness ==
    /\ context.status = "error"
    /\ context.error = "Auth client not initialized"
    /\ context.authClient = NoClient
    /\ clears = {}

\* C11: every provider effect run that completes without an exception leaves
\* status = success, identity = the restored identity and the initialization
\* promise resolved with that identity if the client reports a session, and
\* status = idle with the promise resolved with absent otherwise.
C11_InitSettles ==
    [][\A r \in inits :
          /\ InitRestored(r)
               => /\ context'.status = "success"
                  /\ context'.identity = clientIdentity[r.authClient]
                  /\ initializationPromise' = Resolved(clientIdentity[r.authClient])
          /\ InitIdle(r)
               => /\ context'.status = "idle"
                  /\ initializationPromise' = Resolved(None)]_vars

\* C11 amended: the store is updated as stated by every run; the promise is
\* resolved with the run's outcome, and the calls waiting on it released with
\* it, if its resolver is still stored, and is left as an overlapping run
\* settled it otherwise.
C11_InitSettlesLivePromise ==
    [][\A r \in inits :
          /\ InitRestored(r)
               => /\ context'.status = "success"
                  /\ context'.identity = clientIdentity[r.authClient]
                  /\ context'.error = NoError
                  /\ initializationResolve # NoPromise
                       => /\ initializationPromise' = Resolved(clientIdentity[r.authClient])
                          /\ \A w \in waiters' :
                                w.epoch = initializationResolve
                                  => w.state = "resolved" /\ w.val = clientIdentity[r.authClient]
                  /\ initializationResolve = NoPromise => UNCHANGED promiseVars
          /\ InitIdle(r)
               => /\ context'.status = "idle"
                  /\ context'.error = NoError
                  /\ initializationResolve # NoPromise
                       => /\ initializationPromise' = Resolved(None)
                          /\ \A w \in waiters' :
                                w.epoch = initializationResolve
                                  => w.state = "resolved" /\ w.val = None
                  /\ initializationResolve = NoPromise => UNCHANGED promiseVars]_vars

\* C11 witness: a session was restored and a call that waited for the
\* initialization got the restored identity.
C11_Witness ==
    /\ context.status = "success"
    /\ context.identity.kind = "deleg"
    /\ inits = {}
    /\ initializationPromise = Resolved(context.identity)
    /\ \E w \in waiters : w.epoch = 1 /\ w.state = "resolved" /\ w.val = context.identity

\* C12: AuthClient.create or isAuthenticated throws in a provider effect run:
\* status = error, error = the thrown Error or "Initialization failed", and
\* every call waiting on the initialization promise is rejected with that error,
\* so that no call is left waiting.
C12_InitFailure ==
    [][\A r \in inits, thrown \in Thrown :
          InitFailed(r, thrown)
            => /\ context'.status = "error"
               /\ context'.error =
                    (IF thrown = "Error" THEN "thrownError" ELSE "Initialization failed")
               /\ \A w \in waiters :
                     w.state = "pending"
                       => [w EXCEPT !.state = "rejected", !.err = context'.error] \in waiters'
               /\ \A w \in waiters' : w.state # "pending"
               /\ \A w \in waiters : w.state # "pending" => w \in waiters'
               /\ context'.identity = context.identity
               /\ context'.authClient = context.authClient]_vars

\* C12 witness: the initialization threw something that is no Error, and a call
\* that waited on the promise was rejected with the default error.
C12_Witness ==
    /\ context.status = "error"
    /\ context.error = "Initialization failed"
    /\ initializationPromise = Rejected("Initialization failed")
    /\ \E w \in waiters :
          w.epoch >= 1 /\ w.state = "rejected" /\ w.err = "Initialization failed"

\* C13: ensureInitialized() called while status is neither initializing nor
\* error changes nothing of the store, the promise, the clients, the timers or
\* the calls made before, and returns at once the store's identity if that is a
\* delegation valid now, and absent otherwise.
C13_LiveResult ==
    [][(ensureInitialized /\ context.status \notin {"initializing", "error"})
         => /\ UNCHANGED <<context, initializationResolve, initializationReject,
                           initializationPromise, clientIdentity, storage, inits,
                           handshakes, clears, timers, now>>
            /\ waiters \subseteq waiters'
            /\ Cardinality(waiters' \ waiters) = 1
            /\ \A w \in waiters' \ waiters :
                  /\ w.state = "resolved"
                  /\ w.val = (IF context.identity.kind = "deleg" /\ context.identity.exp > now
                              THEN context.identity ELSE None)]_vars

\* C13 witness: the initialization restored a session and resolved the promise
\* with its identity, a logout succeeded before the delegation expired, and a
\* call made after it got absent.
C13_Witness ==
    /\ initializationPromise.state = "resolved"
    /\ initializationPromise.val.kind = "deleg"
    /\ context.status = "idle"
    /\ context.identity = None
    /\ counts.clears >= 1
    /\ now = 0
    /\ \E w \in waiters : w.epoch = 0 /\ w.state = "resolved" /\ w.val = None

\* C14: a call of ensureInitialized() made while status = initializing waits on
\* the pending initialization promise; all calls that wait, wait on that one
\* promise; the step that settles it releases every one of them with the outcome
\* the promise was settled with, and a call once released is never touched again.
C14_ReleasedTogether ==
    [][/\ (ensureInitialized /\ context.status = "initializing")
            => /\ initializationPromise.state = "pending"
               /\ \A w \in waiters' \ waiters :
                     w.state = "pending" /\ w.epoch = initializationPromise.epoch
       /\ \A w \in waiters :
             w.state = "pending"
               => /\ initializationPromise.state = "pending"
                  /\ w.epoch = initializationPromise.epoch
       /\ \A w \in waiters : w.state # "pending" => w \in waiters'
       /\ (\E w \in waiters : w.state = "pending" /\ w \notin waiters')
            => /\ initializationPromise'.state # "pending"
               /\ \A w \in waiters :
                     w.state = "pending"
                       => [w EXCEPT !.state = initializationPromise'.state,
                                    !.val = initializationPromise'.val,
                                    !.err = initializationPromise'.err] \in waiters'
               /\ \A w \in waiters' : w.state # "pending"
               /\ Cardinality(waiters') = Cardinality(waiters)]_vars

\* C14 witness: two calls made during the initialization were both released
\* with the restored identity.
C14_Witness ==
    \E w1, w2 \in waiters :
       /\ w1.id # w2.id
       /\ w1.epoch >= 1 /\ w2.epoch = w1.epoch
       /\ w1.state = "resolved" /\ w2.state = "resolved"
       /\ w1.val.kind = "deleg" /\ w2.val = w1.val

\* C15: under the assumption that every awaited auth client call comes back, a
\* call of ensureInitialized() that waits, whether it was made before the first
\* provider effect or during a later one, is released once a provider effect
\* has run; and a call made when the promise is already settled does not wait.
C15_NoCallWaitsForever ==
    /\ [][(ensureInitialized /\ initializationPromise.state # "pending")
            => \A w \in waiters' \ waiters : w.state # "pending"]_vars
    /\ (counts.inits > 0 /\ \E w \in waiters : w.state = "pending")
         ~> (\A w \in waiters : w.state # "pending")

\* C15 witness: a call that waited on the first promise and a call that waited
\* on the promise of a re-initialization were both released.
C15_Witness ==
    \E w1, w2 \in waiters :
       /\ w1.epoch = 1 /\ w1.state # "pending"
       /\ w2.epoch = 2 /\ w2.state = "resolved"

C17_ExpiryInvalidates ==
    [][(/\ props.clearIdentityOnExpiry
        /\ \E c \in clears : c.by = "timer" /\ c.pc = "create" /\ c \notin clears')
         => /\ context'.status = "idle"
            /\ context'.identity = None
            /\ context'.authClient # context.authClient]_vars

\* C18: when the provider is rendered with clearIdentityOnExpiry = false, no
\* expiry timer is ever pending and no clear() run was started by a timer.
C18_NoTimerWhenDisabled ==
    ~props.clearIdentityOnExpiry
        => /\ timers = {}
           /\ counts.timers = 0
           /\ \A c \in clears : c.by = "call"

\* C18 witness: with clearIdentityOnExpiry = false, a restored session expired
\* and a login then succeeded; no timer is pending.
C18_Witness ==
    /\ ~props.clearIdentityOnExpiry
    /\ context.status = "success"
    /\ context.identity.kind = "deleg"
    /\ context.identity.id = 1
    /\ storage = context.identity
    /\ now = MaxNow
    /\ counts.clears = 0
    /\ timers = {}

C20_LoggingInUntilCallback ==
    [][(/\ context.status = "logging-in"
        /\ handshakes # {}
        /\ context'.status # "logging-in"
        /\ ~ProviderEffect)
         => \/ \E h \in handshakes : onLoginSuccess(h)
            \/ \E h \in handshakes, reason \in FailureReasons : onLoginError(h, reason)]_vars

C22_ErrorMatchesStatus ==
    /\ context.status = "error" => context.error # NoError
    /\ context.status \in {"idle", "logging-in", "success"} => context.error = NoError

\* C22 witness: the initialization failed, which left an error in the store,
\* and a later step (a logout, or another effect run) set idle without an error.
C22_Witness ==
    /\ initializationPromise.state = "rejected"
    /\ context.status = "idle"
    /\ context.error = NoError
    /\ clears = {}
    /\ inits = {}

\* C23: after every store.send(event), in any sequence, each field the event
\* carries has the event's value, every other field of the store has the value
\* it had before, and the store has no further field.
C23_PartialUpdate ==
    [][\A event \in Events :
          send(event)
            => /\ DOMAIN context' = DOMAIN context \cup DOMAIN event
               /\ \A k \in DOMAIN event : context'[k] = event[k]
               /\ \A k \in DOMAIN context \ DOMAIN event : context'[k] = context[k]]_vars

\* C23 witness: a store built by several events, each of which left the fields
\* of the others in place.
C23_Witness ==
    /\ "type" \in DOMAIN context
    /\ context.providerComponentPresent
    /\ ~context.clearIdentityOnExpiry
    /\ context.authClient = 1
    /\ context.status = "success"
    /\ context.identity = DelegationIdentity(1, 2)

\* C24: in the options createAuthClient() hands to AuthClient.create(), each of
\* idleOptions.disableIdle and idleOptions.disableDefaultIdleCallback has the
\* value the host's createOptions.idleOptions gives it, and is true if the host
\* gives it none, also when the host's idleOptions holds other keys only.
C24_IdleDefaults ==
    [][CallCreateAuthClient
         => LET host == IF Len(context.createOptions) = 0
                        THEN EmptyObject ELSE context.createOptions[1]
                hostIdle == IF "idleOptions" \in DOMAIN host
                            THEN host.idleOptions ELSE EmptyObject
                options == returned'.options
            IN /\ "idleOptions" \in DOMAIN options
               /\ \A k \in {"disableIdle", "disableDefaultIdleCallback"} :
                     /\ k \in DOMAIN options.idleOptions
                     /\ options.idleOptions[k] =
                          (IF k \in DOMAIN hostIdle THEN hostIdle[k] ELSE TRUE)]_vars

\* C25: at most one expiry timer is pending at any time.
C25_OneTimer == Cardinality(timers) <= 1

\* C26: the step that completes a successful logout leaves no expiry timer
\* pending, and a timer that fires on an authenticated session is the timer
\* that was armed for the identity of that session.
C26_OwnTimerOnly ==
    [][/\ (\E c \in clears : ClearCreated(c)) => timers' = {}
       /\ \A t \in timers :
             (/\ TimerFired(t)
              /\ context.status = "success"
              /\ context.identity.kind = "deleg")
               => t.for = context.identity.id]_vars

\* C27: an expiry timer that fires on a session already logged out (status
\* idle, no identity) starts a clear() run that leaves the session as it was:
\* neither the firing nor the end of the run changes status, identity or error,
\* and no error state is produced.
C27_IdleFiringNoOp ==
    [][/\ \A t \in timers :
            (TimerFired(t) /\ context.status = "idle" /\ context.identity = None)
              => /\ context'.status = context.status
                 /\ context'.identity = context.identity
                 /\ context'.error = context.error
       /\ \A c \in clears :
            (/\ c.by = "timer" /\ c.onIdle
             /\ \/ ClearCreated(c)
                \/ \E thrown \in Thrown : LogoutRejected(c, thrown)
                \/ \E thrown \in Thrown : ClearCreateFailed(c, thrown))
              => /\ context'.status = "idle"
                 /\ context'.identity = None
                 /\ context'.error = NoError]_vars

\* C28: when the effect restores a delegation whose expiration minus the
\* current time minus the safety margin is zero or negative, and expiry clearing
\* is on, a timer is still armed for the restored identity and it is due at
\* once, as with delay 0.
C28_PastExpiryFiresAtOnce ==
    [][\A r \in inits :
          LET identity == clientIdentity[r.authClient]
          IN (/\ InitRestored(r)
              /\ r.clearIdentityOnExpiry
              /\ identity.kind = "deleg"
              /\ identity.exp # 0
              /\ identity.exp - now - SafetyMargin <= 0)
               => /\ Cardinality(timers' \ timers) = 1
                  /\ \A t \in timers' \ timers :
                        /\ t.fireAt = now
                        /\ t.for = identity.id]_vars

\* Reached: a session restored after its delegation expired (no login was made,
\* so the timer is the effect's), with its timer due at the time of the restore.
C28_Witness ==
    /\ counts.logins = 0
    /\ context.status = "success"
    /\ \E t \in timers :
          /\ t.for = context.identity.id
          /\ t.fireAt = now
          /\ context.identity.exp - t.fireAt - SafetyMargin < 0

\* C29: a handshake success that sets status success while expiry clearing is
\* on arms one timer, for the instant the effect computes when it restores the
\* identity just stored: that delegation's expiration minus the safety margin.
C29_TimerAtDelegationExpiry ==
    [][\A h \in handshakes :
          (/\ onLoginSuccess(h)
           /\ context.clearIdentityOnExpiry
           /\ context'.status = "success")
            => /\ context'.identity.kind = "deleg"
               /\ Cardinality(timers' \ timers) = 1
               /\ \A t \in timers' \ timers :
                     t.fireAt = now + Max(context'.identity.exp - now - SafetyMargin, 0)]_vars

\* C30: once the store holds an auth client handle, it holds one in every later
\* state: no step resets the handle to absent (logout and a further
\* initialization replace it or keep it).
C30_HandleNeverEmptied ==
    [][context.authClient # NoClient => context'.authClient # NoClient]_vars

\* Reached: the only run of the effect stored the first handle, and a logout
\* has replaced it by the second client.
C30_Witness ==
    /\ counts.inits = 1
    /\ counts.clears >= 1
    /\ context.authClient = 2
    /\ context.status = "idle"

\* C31: a run of the effect creates an auth client only while the store holds
\* none, so runs that overlap create one client between them; every other
\* client is created by a clear() run after its logout.
C31_OneClientPerSession ==
    [][/\ \A r \in inits : InitCreated(r) => context.authClient = NoClient
       /\ counts'.clients > counts.clients
            => \/ \E r \in inits : InitCreated(r)
               \/ \E c \in clears : c.pc = "create" /\ ClearCreated(c)]_vars

C33_SettledOnce ==
    [][/\ (initializationPromise.state # "pending"
            /\ initializationPromise' # initializationPromise)
              => /\ initializationPromise'.state = "pending"
                 /\ initializationPromise'.epoch = counts'.promises
                 /\ counts'.promises = counts.promises + 1
       /\ \A w \in waiters : w.state # "pending" => w \in waiters'
       /\ \A r \in inits :
            initializationResolve = NoPromise
              => /\ InitRestored(r)
                      => UNCHANGED promiseVars /\ context'.status = "success"
                 /\ InitIdle(r)
                      => UNCHANGED promiseVars /\ context'.status = "idle"
                 /\ (\E thrown \in Thrown : InitFailed(r, thrown))
                      => UNCHANGED promiseVars /\ context'.status = "error"]_vars

\* Reached: two runs of the effect shared the first promise; one resolved it and
\* the other failed afterwards: the store reports the error, the promise stays
\* resolved.
C33_Witness ==
    /\ counts.inits >= 2
    /\ counts.promises = 1
    /\ counts.logins = 0
    /\ counts.clears = 0
    /\ inits = {}
    /\ initializationPromise.state = "resolved"
    /\ context.status = "error"

\* C34: whenever status is success, the stored identity is a delegation (not
\* the anonymous identity), and, unless a logout is under way, it is the
\* identity the store's current auth client handle holds.
C34_SuccessIdentityOfHandle ==
    context.status = "success"
      => /\ context.identity.kind = "deleg"
         /\ context.authClient # NoClient
         /\ clears = {} => context.identity = clientIdentity[context.authClient]

\* C35: a handshake callback, success or failure, that fires while status is
\* not logging-in leaves status, identity and error of the store unchanged.
C35_StaleCallbackIgnored ==
    [][\A h \in handshakes :
          (/\ context.status # "logging-in"
           /\ \/ onLoginSuccess(h)
              \/ \E reason \in FailureReasons : onLoginError(h, reason))
            => /\ context'.status = context.status
               /\ context'.identity = context.identity
               /\ context'.error = context.error]_vars

\* C36: when a run of the effect settles the initialization promise (resolves
\* or rejects it), that promise is the one that was pending when the run
\* started.
C36_SettledByOwnRun ==
    [][\A r \in inits :
          (/\ \/ InitRestored(r)
              \/ InitIdle(r)
              \/ \E thrown \in Thrown : InitFailed(r, thrown)
           /\ initializationPromise' # initializationPromise)
            => r.epoch = initializationPromise.epoch]_vars

\* C37: whenever status is initializing the initialization promise is pending,
\* with its resolvers in place; a call of ensureInitialized() made then gets
\* that pending promise, never one settled before.
C37_InitializingHasPendingBarrier ==
    /\ [](context.status = "initializing"
            => /\ initializationPromise.state = "pending"
               /\ initializationResolve = initializationPromise.epoch
               /\ initializationReject = initializationPromise.epoch)
    /\ [][(ensureInitialized /\ context.status = "initializing")
            => \A w \in waiters' \ waiters :
                  /\ w.state = "pending"
                  /\ w.epoch = initializationPromise.epoch]_vars

\* Reached: a later run of the effect set status initializing again with a
\* second promise, and a call made then waits on that promise.
C37_Witness ==
    /\ context.status = "initializing"
    /\ counts.promises = 2
    /\ \E w \in waiters : w.state = "pending" /\ w.epoch = 2

\* C38: the step that settles the initialization promise leaves the store in
\* the matching state: resolved with an identity, status is success and the
\* store holds that identity; resolved with none, status is idle; rejected,
\* status is error and the store holds the error of the rejection.  The calls
\* the step releases carry the same outcome.
C38_StoreMatchesSettlement ==
    [][(initializationPromise.state = "pending"
        /\ initializationPromise'.state # "pending")
         => /\ (initializationPromise'.state = "resolved"
                 /\ initializationPromise'.val # None)
                   => /\ context'.status = "success"
                      /\ context'.identity = initializationPromise'.val
            /\ (initializationPromise'.state = "resolved"
                 /\ initializationPromise'.val = None)
                   => context'.status = "idle"
            /\ initializationPromise'.state = "rejected"
                   => /\ context'.status = "error"
                      /\ context'.error = initializationPromise'.err
            /\ \A w \in waiters' \ waiters :
                  /\ w.state = initializationPromise'.state
                  /\ w.val = initializationPromise'.val
                  /\ w.err = initializationPromise'.err]_vars

\* Reached: the promise was rejected with a thrown Error while a call waited;
\* the store reports that error and the call got it.
C38_Witness ==
    /\ initializationPromise.state = "rejected"
    /\ initializationPromise.err = "thrownError"
    /\ context.status = "error"
    /\ context.error = "thrownError"
    /\ \E w \in waiters : w.epoch # 0 /\ w.state = "rejected" /\ w.err = "thrownError"

\* C39: a clear() run whose logout resolved ends with status idle and no
\* identity, whether the re-creation of the auth client succeeds or throws; a
\* clear() run sets status error only when the logout itself rejected.
C39_ErrorOnlyOnLogoutFailure ==
    [][\A c \in clears :
          (/\ c.pc = "create"
           /\ \/ ClearCreated(c)
              \/ \E thrown \in Thrown : ClearCreateFailed(c, thrown))
            => /\ context'.status = "idle"
               /\ context'.identity = None]_vars

====
